---- MODULE Spec2Model ----
(***************************************************************************)
(* Model of scriptify's pipeline orchestration (src/src/cmd/pipeline.rs):  *)
(* the Pipeline builder, Pipeline::spawn_with_io, the input forwarding     *)
(* thread, the output drain and PipelineHandle::wait, together with the    *)
(* OS pipes and child processes they drive.  A second, smaller state       *)
(* machine models Handle::wait and Status (src/src/cmd/handle.rs,          *)
(* src/src/cmd/status.rs).                                                 *)
(*                                                                         *)
(* Stages are numbered 1..N in spawn order (index i-1 in the source).      *)
(* Pipe p, for p in 1..N, is the pipe feeding stage p's stdin; pipe N+1    *)
(* and pipe N+2 are the pipes capturing the last stage's stdout and        *)
(* stderr.  An OS pipe is its history of written bytes plus the number of  *)
(* bytes already read, and the sets of processes/threads that hold an open *)
(* write end or read end.  File descriptor 0 stands for an inherited       *)
(* stream.                                                                 *)
(***************************************************************************)
EXTENDS Integers, Sequences, FiniteSets

\* ---- bounds ----
MaxStages == 2
MaxInput == 2
PipeCap == 1
MaxChildren == 3
MaxEnvs == 3
MaxCalls == 2
MaxPuts == 3

\* ---- Option<T> ----
None == <<>>
Some(v) == <<v>>

\* ---- data ----
PipeMode == {"Stdout", "Stderr", "Both"}
Api == {"run", "output_bytes", "stream_to", "run_with_io"}
Stages == 1..MaxStages
Pipes == 1..(MaxStages + 2)
Iota(n) == [k \in 1..n |-> k]
Inputs == {Iota(n) : n \in 0..MaxInput}
ExitCodes == {0, 1}

\* ---- std::process::ExitStatus ----
Exited(c) == <<"exit", c>>
Signaled == <<"signal">>
NotExited == <<"running">>
ExitStatuses == {Exited(c) : c \in ExitCodes} \cup {Signaled}
ExitStatusSuccess(st) == st = Exited(0)
ExitStatusCode(st) == IF st[1] = "exit" THEN Some(st[2]) ELSE None

Host == <<"host">>
Thread == <<"thread">>
Stage(i) == <<"stage", i>>

\* two host threads that each execute a pipeline of their own
Calls == {1, 2}
\* the pipes of one call: pipe j is the stdin of stage j + 1 and the stdout
\* of stage j; pipe 0 carries the input, the last one the captured output
KPipes == 0..MaxStages
CallThread(c) == <<"thread", c>>
CallStage(c, i) == <<"stage", c, i>>

VARIABLES
  connections,   \* Pipeline.connections: the PipeMode of each entry
  input,         \* Pipeline.input: Option<CmdInput>
  api,           \* the executing call, or "none" while the pipeline is built
  feed,          \* the byte source handed to the forwarding thread
  pc,            \* position of the orchestrating thread
  next,          \* loop index of the spawn loop, then of the wait loop
  result,        \* "none", "Ok" or "Err": what the call returned
  output,        \* bytes drained into the Vec of execute_internal
  sink,          \* bytes copied into the caller's writer
  failedAt,      \* 0, or the stage whose spawn failed
  copyErr,       \* the copy into the caller's writer returned an error
  delivered,     \* None, or Some(bytes) carried by the Ok value returned
  child,         \* per stage: "unspawned", "running", "exited"
  status,        \* per stage: its ExitStatus, NotExited until it exits
  waited,        \* per stage: Child::wait has returned for it
  early,         \* per stage: it exited before its stdin reached EOF
  fdIn, fdOut, fdErr,  \* per stage: the pipe behind each stream, 0 = inherited
  pipeIn,        \* per pipe: every byte ever written to it, in order
  rdCnt,         \* per pipe: number of bytes already read from it
  wr, rdr,       \* per pipe: holders of an open write end / read end
  outW, errW,    \* per stage: the bytes it wrote to stdout / stderr
  thread,        \* input forwarding thread: "none", "running", "done"
  sent,          \* number of input bytes the forwarding thread has written
  hChild,        \* Handle.0: per child NotExited or its ExitStatus
  hIdx,          \* Handle::wait: index of the child being waited on
  hStatus,       \* Handle::wait: the Vec<ExitStatus> collected so far
  hRet,          \* None, or Some(Status::success()) of the returned Status
  hCodes,        \* Status::code() of the returned Status, collected
  hExited,       \* the children in the order in which they exited
  program,       \* Cmd.program: "unset" before Cmd::new, then its kind
  envs,          \* Cmd.envs: the (key, value) pairs in call order
  spawned,       \* the command's process: "none", "running" or "failed"
  spawnErr,      \* None, or Some(program named by the spawn error)
  procEnv,       \* None, or Some(environment the spawned process sees)
  sApi,          \* the spawn_with_* call that made the PipelineHandle
  sProc,         \* PipelineHandle.children: NotExited or the ExitStatus
  sChildOut,     \* children.last().stdout: None, or Some(pipe) if not taken
  sCallerOut,    \* the ChildStdout handed to the caller: "none", "held", "closed"
  sWritten,      \* the bytes the last stage wrote to its stdout
  sRead,         \* number of those bytes the caller has read
  sCall,         \* the PipelineHandle method called: "none", "wait", "output_bytes"
  sIdx,          \* PipelineHandle::wait: index of the child being waited on
  sRet,          \* None, <<"Ok", bytes>> or <<"Err", message>>
  tChild,        \* ThreadHandle.handle: per child NotExited or its ExitStatus
  tIdx,          \* ThreadHandle::wait: index of the child being waited on
  tWritten,      \* the bytes the last stage wrote to its stdout
  tRead,         \* number of those bytes the drain thread has read
  tSink,         \* the bytes the caller's writer has accepted
  tThread,       \* drain thread: "none", "copying", "eof" or "failed"
  tFaulty,       \* the caller's writer can reject a write
  tRet,          \* None, <<"Ok", sink>> or <<"Err", message>>
  kPc,           \* per concurrent call: position of its host thread
  kNext,         \* per call: index of its spawn loop, then of its wait loop
  kRun,          \* per call and stage: "unspawned", "running", "exited"
  kWr,           \* per call and pipe: holders of an open write end
  kBuf,          \* per call and pipe: the bytes buffered in it
  kThread,       \* per call: its forwarding thread, "none", "running", "done"
  kSent,         \* per call: number of input bytes its thread has written
  kOut,          \* per call: the bytes drained into its output Vec
  qIsPipeline,   \* the builder is a Pipeline (TRUE) or still a Cmd (FALSE)
  qStages,       \* number of commands in the builder
  qSuppress,     \* suppress_echo of the Cmd / Pipeline
  qApi,          \* the executing call, "none" while building
  qAsked,        \* suppress_echo as it was when the executing call was made
  qPc,           \* "built", "execute_internal", "spawn_with_io", "loop",
                 \* "spawned" or "failed"
  qSpawned,      \* number of stages spawned so far
  qEchoAt,       \* per echo line printed: the number of stages spawned then
  echoState,     \* the Echo value: "none", "Quiet", "Head" or "Tail"
  echoFirst,     \* the Echo value the constructor returned
  echoArgs,      \* the arguments passed to put, in call order
  echoOut,       \* what was printed: arguments, " " and "\n"
  xInput,        \* Cmd.input of the single command: the attached bytes
  xPc,           \* Cmd::execute_internal: "new", "write", "collect", "done"
  xSent,         \* number of input bytes written to the child's stdin
  xIn,           \* the bytes buffered in the child's stdin pipe
  xOutBuf,       \* the bytes buffered in the child's stdout pipe
  xCollected,    \* the bytes wait_with_output has read
  xChild,        \* the child: None, NotExited or its ExitStatus
  xRet,          \* None, <<"Ok", stdout>> or <<"Err", message>>
  xCapture,      \* capture_output: TRUE for output(), FALSE for run()
  xTerm,         \* the bytes the child wrote to the inherited stdout
  inputCalls     \* record of the input calls made on the builder: the bytes
                 \* of each, in call order; the call that consumes the
                 \* builder keeps the last entry only

pvars == <<connections, input, api, feed, pc, next, result, output, sink,
           failedAt, copyErr, child, status, waited, early, fdIn, fdOut, fdErr,
           pipeIn, rdCnt, wr, rdr, outW, errW, thread, sent, delivered>>
hvars == <<hChild, hIdx, hStatus, hRet, hCodes, hExited>>
cvars == <<program, envs, spawned, spawnErr, procEnv>>
svars == <<sApi, sProc, sChildOut, sCallerOut, sWritten, sRead, sCall, sIdx,
           sRet>>
tvars == <<tChild, tIdx, tWritten, tRead, tSink, tThread, tFaulty, tRet>>
kvars == <<kPc, kNext, kRun, kWr, kBuf, kThread, kSent, kOut>>
qvars == <<qIsPipeline, qStages, qSuppress, qApi, qAsked, qPc, qSpawned,
           qEchoAt>>
evars == <<echoState, echoFirst, echoArgs, echoOut>>
xvars == <<xInput, xPc, xSent, xIn, xOutBuf, xCollected, xChild, xRet,
           xCapture, xTerm>>
mvars == <<cvars, svars, tvars, kvars, qvars, evars, xvars>>
ovars == <<mvars, inputCalls>>
vars == <<pvars, hvars, ovars>>

N == Len(connections)
StdoutPipe == N + 1
StderrPipe == N + 2

\* the bytes sitting in pipe p
Buffered(p) == SubSeq(pipeIn[p], rdCnt[p] + 1, Len(pipeIn[p]))
Readable(p) == rdCnt[p] < Len(pipeIn[p])
AtEof(p) == ~Readable(p) /\ wr[p] = {}
HasRoom(p) == Len(pipeIn[p]) - rdCnt[p] < PipeCap
Broken(p) == rdr[p] = {}

\* closing every endpoint a holder has
CloseAll(ends, h) == [p \in Pipes |-> ends[p] \ {h}]
\* ---- construction ----
\* mutant: a pipeline without any stage
IntoPipelineEmpty == <<>>

\* Cmd::into_pipeline: connections: vec![(self, PipeMode::Stdout)]
IntoPipeline == <<"Stdout">>

\* Cmd::new(..).into_pipeline(): one stage, no input, nothing executing
Init ==
  /\ connections = IntoPipeline
  /\ input = None
  /\ api = "none"
  /\ feed = None
  /\ pc = "built"
  /\ next = 0
  /\ result = "none"
  /\ output = <<>>
  /\ sink = <<>>
  /\ failedAt = 0
  /\ copyErr = FALSE
  /\ delivered = None
  /\ child = [i \in Stages |-> "unspawned"]
  /\ status = [i \in Stages |-> NotExited]
  /\ waited = [i \in Stages |-> FALSE]
  /\ early = [i \in Stages |-> FALSE]
  /\ fdIn = [i \in Stages |-> 0]
  /\ fdOut = [i \in Stages |-> 0]
  /\ fdErr = [i \in Stages |-> 0]
  /\ pipeIn = [p \in Pipes |-> <<>>]
  /\ rdCnt = [p \in Pipes |-> 0]
  /\ wr = [p \in Pipes |-> {}]
  /\ rdr = [p \in Pipes |-> {}]
  /\ outW = [i \in Stages |-> <<>>]
  /\ errW = [i \in Stages |-> <<>>]
  /\ thread = "none"
  /\ sent = 0
  /\ hChild = <<>>
  /\ hIdx = 1
  /\ hStatus = <<>>
  /\ hRet = None
  /\ hCodes = <<>>
  /\ hExited = <<>>
  /\ program = "unset"
  /\ envs = <<>>
  /\ spawned = "none"
  /\ spawnErr = None
  /\ procEnv = None
  /\ sApi = "none"
  /\ sProc = <<>>
  /\ sChildOut = None
  /\ sCallerOut = "none"
  /\ sWritten = <<>>
  /\ sRead = 0
  /\ sCall = "none"
  /\ sIdx = 1
  /\ sRet = None
  /\ tChild = <<>>
  /\ tIdx = 1
  /\ tWritten = <<>>
  /\ tRead = 0
  /\ tSink = <<>>
  /\ tThread = "none"
  /\ tFaulty = FALSE
  /\ tRet = None
  /\ kPc = [c \in Calls |-> "idle"]
  /\ kNext = [c \in Calls |-> 0]
  /\ kRun = [c \in Calls |-> [i \in Stages |-> "unspawned"]]
  /\ kWr = [c \in Calls |-> [j \in KPipes |-> {}]]
  /\ kBuf = [c \in Calls |-> [j \in KPipes |-> <<>>]]
  /\ kThread = [c \in Calls |-> "none"]
  /\ kSent = [c \in Calls |-> 0]
  /\ kOut = [c \in Calls |-> <<>>]
  /\ inputCalls = <<>>
  /\ qIsPipeline = FALSE
  /\ qStages = 1
  /\ qSuppress = FALSE
  /\ qApi = "none"
  /\ qAsked = FALSE
  /\ qPc = "built"
  /\ qSpawned = 0
  /\ qEchoAt = <<>>
  /\ echoState = "none"
  /\ echoFirst = "none"
  /\ echoArgs = <<>>
  /\ echoOut = <<>>
  /\ xInput = <<>>
  /\ xPc = "new"
  /\ xSent = 0
  /\ xIn = <<>>
  /\ xOutBuf = <<>>
  /\ xCollected = <<>>
  /\ xChild = None
  /\ xRet = None
  /\ xCapture = FALSE
  /\ xTerm = <<>>

\* ---- Pipeline builder ----
\* mutant: the new mode is recorded on every edge, and the input is dropped
PipelinePipeAllEdges(mode) ==
  /\ pc = "built"
  /\ Len(connections) < MaxStages
  /\ connections' = [k \in 1..(Len(connections) + 1) |-> mode]
  /\ input' = None
  /\ UNCHANGED <<api, feed, pc, next, result, output, sink, failedAt,
                 child, status, waited, early, fdIn, fdOut, fdErr, pipeIn,
                 rdCnt, wr, rdr, outW, errW, thread, sent, copyErr,
                 delivered, hvars, ovars>>

\* Pipeline::pipe / pipe_stderr / pipe_both: push (cmd, mode)
PipelinePipe(mode) ==
  /\ pc = "built"
  /\ Len(connections) < MaxStages
  /\ connections' = Append(connections, mode)
  /\ UNCHANGED <<input, api, feed, pc, next, result, output, sink, failedAt,
                 child, status, waited, early, fdIn, fdOut, fdErr, pipeIn,
                 rdCnt, wr, rdr, outW, errW, thread, sent, copyErr,
                 delivered, hvars, ovars>>

\* the record after the builder is consumed: its last entry, if any
LastCall ==
  IF inputCalls = <<>> THEN <<>> ELSE <<inputCalls[Len(inputCalls)]>>

\* mutant: an input that is already attached is kept
PipelineInputKeepsFirst(b) ==
  /\ pc = "built"
  /\ input # Some(b)
  /\ input' = IF input = None THEN Some(b) ELSE input
  /\ Len(inputCalls) < MaxCalls
  /\ inputCalls' = Append(inputCalls, b)
  /\ UNCHANGED <<connections, api, feed, pc, next, result, output, sink,
                 failedAt, child, status, waited, early, fdIn, fdOut, fdErr,
                 pipeIn, rdCnt, wr, rdr, outW, errW, thread, sent, copyErr,
                 delivered, hvars, mvars>>

\* mutant: attaching an input starts the forwarding thread at once
PipelineInputEager(b) ==
  /\ pc = "built"
  /\ input # Some(b)
  /\ input' = Some(b)
  /\ thread' = "running"
  /\ Len(inputCalls) < MaxCalls
  /\ inputCalls' = Append(inputCalls, b)
  /\ UNCHANGED <<connections, api, feed, pc, next, result, output, sink,
                 failedAt, child, status, waited, early, fdIn, fdOut, fdErr,
                 pipeIn, rdCnt, wr, rdr, outW, errW, sent, copyErr,
                 delivered, hvars, mvars>>

\* Pipeline::input / input_bytes / input_reader: self.input = Some(..)
PipelineInput(b) ==
  /\ pc = "built"
  /\ input # Some(b)
  /\ input' = Some(b)
  /\ Len(inputCalls) < MaxCalls
  /\ inputCalls' = Append(inputCalls, b)
  /\ UNCHANGED <<connections, api, feed, pc, next, result, output, sink,
                 failedAt, child, status, waited, early, fdIn, fdOut, fdErr,
                 pipeIn, rdCnt, wr, rdr, outW, errW, thread, sent, copyErr,
                 delivered, hvars, mvars>>

\* Pipeline::run / output_bytes / stream_to: input = self.input.take(),
\* then spawn_with_io
Execute(a) ==
  /\ pc = "built"
  /\ a \in {"run", "output_bytes", "stream_to"}
  /\ api' = a
  /\ feed' = input
  /\ input' = None
  /\ pc' = "spawn"
  /\ next' = 1
  /\ inputCalls' = LastCall
  /\ UNCHANGED <<connections, result, output, sink, failedAt, child, status,
                 waited, early, fdIn, fdOut, fdErr, pipeIn, rdCnt, wr, rdr,
                 outW, errW, thread, sent, copyErr,
                 delivered, hvars, mvars>>

\* Pipeline::run_with_io(reader, writer): the reader argument is the source
RunWithIo(r) ==
  /\ pc = "built"
  /\ api' = "run_with_io"
  /\ feed' = Some(r)
  /\ pc' = "spawn"
  /\ next' = 1
  /\ inputCalls' = LastCall
  /\ UNCHANGED <<connections, input, result, output, sink, failedAt, child,
                 status, waited, early, fdIn, fdOut, fdErr, pipeIn, rdCnt, wr,
                 rdr, outW, errW, thread, sent, copyErr,
                 delivered, hvars, mvars>>

\* ---- Pipeline::spawn_with_io ----
\* the mode of the edge leaving stage i: self.connections[i + 1].1
NextPipeMode(i) == connections[i + 1]

\* mutant: the Stdout arm and the Stderr arm wire the wrong stream
StdoutFdSwapped(i) ==
  IF i = N THEN StdoutPipe
  ELSE IF NextPipeMode(i) \in {"Stderr", "Both"} THEN i + 1 ELSE 0

\* mutant: stdout is piped to the next stage whatever the mode
StdoutFdAlways(i) == IF i = N THEN StdoutPipe ELSE i + 1

\* stdout of stage i: piped to the caller for the last stage, else the write
\* end of the new pipe for Stdout and Both, else left inherited
StdoutFd(i) ==
  IF i = N THEN StdoutPipe
  ELSE IF NextPipeMode(i) \in {"Stdout", "Both"} THEN i + 1 ELSE 0

\* mutant: the Both arm forgets the cloned writer for stderr
StderrFdNoClone(i) ==
  IF i = N THEN StderrPipe
  ELSE IF NextPipeMode(i) = "Stderr" THEN i + 1 ELSE 0

\* stderr of stage i: piped to the caller for the last stage, else the write
\* end (Stderr) or its clone (Both) of the new pipe, else left inherited
StderrFd(i) ==
  IF i = N THEN StderrPipe
  ELSE IF NextPipeMode(i) \in {"Stderr", "Both"} THEN i + 1 ELSE 0

\* the pipes whose write end the spawned stage i holds
WritePipes(i) == {StdoutFd(i), StderrFd(i)} \ {0}

\* what the caller keeps of a pipe after the iteration that spawned stage i:
\* first_stdin (i = 1), prev_reader (i < N), last_stdout and last_stderr
HostWr(i, p) == IF i = 1 /\ p = 1 THEN {Host} ELSE {}
HostRd(i, p) ==
  IF i = N /\ p \in {StdoutPipe, StderrPipe} THEN {Host}
  ELSE IF i < N /\ p = i + 1 THEN {Host} ELSE {}

\* mutant: the caller keeps a clone of the reader it hands to the stage
StdinRdCloned(i) == IF i > 1 THEN {Stage(i), Host} ELSE {Stage(i)}

\* the holders of the read end of stage i's stdin pipe once the stage is
\* spawned: the reader was moved into the Command (prev_reader.take(),
\* Stdio::from(reader)), which is dropped at the end of the iteration
StdinRd(i) == {Stage(i)}

\* mutant: only stage 0 gets a pipe, the later stages inherit the host's
\* stdin
StdinFdInherited(i) == IF i = 1 THEN 1 ELSE 0

\* stdin of stage i: Stdio::piped() for stage 0, else the reader of the pipe
\* created in the previous iteration (prev_reader.take()); pipe i is both
StdinFd(i) == i

\* mutant: the caller keeps first_stdin when cmd.spawn() fails
SpawnFailKeepsStdin(i) ==
  /\ pc = "spawn"
  /\ next = i
  /\ i <= N
  /\ failedAt' = i
  /\ result' = "Err"
  /\ pc' = "done"
  /\ wr' = [p \in Pipes |-> IF p = 1 THEN wr[p] ELSE wr[p] \ {Host}]
  /\ rdr' = CloseAll(rdr, Host)
  /\ UNCHANGED <<connections, input, api, feed, next, output, sink, child,
                 status, waited, early, fdIn, fdOut, fdErr, pipeIn, rdCnt,
                 outW, errW, thread, sent, copyErr,
                 delivered, hvars, ovars>>

\* one iteration of the spawn loop in which cmd.spawn() succeeds
SpawnStage(i) ==
  /\ pc = "spawn"
  /\ next = i
  /\ i <= N
  /\ child' = [child EXCEPT ![i] = "running"]
  /\ fdIn' = [fdIn EXCEPT ![i] = StdinFd(i)]
  /\ fdOut' = [fdOut EXCEPT ![i] = StdoutFd(i)]
  /\ fdErr' = [fdErr EXCEPT ![i] = StderrFd(i)]
  /\ wr' = [p \in Pipes |->
              IF p \in WritePipes(i) THEN {Stage(i)}
              ELSE IF p = i THEN wr[p] \cup HostWr(i, p) ELSE wr[p]]
  /\ rdr' = [p \in Pipes |->
               IF p = i THEN StdinRd(i)
               ELSE IF p \in WritePipes(i) THEN HostRd(i, p) ELSE rdr[p]]
  /\ next' = i + 1
  /\ pc' = IF i = N THEN "input" ELSE "spawn"
  /\ UNCHANGED <<connections, input, api, feed, result, output, sink,
                 failedAt, status, waited, early, pipeIn, rdCnt, outW, errW,
                 thread, sent, copyErr,
                 delivered, hvars, ovars>>

\* mutant: the failure is recorded but the loop goes on to the next stage
SpawnFailContinue(i) ==
  /\ pc = "spawn"
  /\ next = i
  /\ i <= N
  /\ failedAt' = i
  /\ result' = "Err"
  /\ next' = i + 1
  /\ pc' = IF i = N THEN "done" ELSE "spawn"
  /\ UNCHANGED <<connections, input, api, feed, output, sink, child, status,
                 waited, early, fdIn, fdOut, fdErr, pipeIn, rdCnt, wr, rdr,
                 outW, errW, thread, sent, copyErr,
                 delivered, hvars, ovars>>

\* one iteration of the spawn loop in which cmd.spawn() fails: the `?`
\* returns the error; children, prev_reader and first_stdin are dropped
SpawnFail(i) ==
  /\ pc = "spawn"
  /\ next = i
  /\ i <= N
  /\ failedAt' = i
  /\ result' = "Err"
  /\ pc' = "done"
  /\ wr' = CloseAll(wr, Host)
  /\ rdr' = CloseAll(rdr, Host)
  /\ UNCHANGED <<connections, input, api, feed, next, output, sink, child,
                 status, waited, early, fdIn, fdOut, fdErr, pipeIn, rdCnt,
                 outW, errW, thread, sent, copyErr,
                 delivered, hvars, ovars>>

\* ---- Pipeline::execute_internal / stream_to / run_with_io ----
\* whether the call drains the last stage's stdout
Captures(a) == a \in {"output_bytes", "stream_to", "run_with_io"}

\* mutant: the children are waited on before the final reader is drained
PcAfterWaitFirst(p, a) ==
  CASE p = "input" -> "join"
    [] p = "join" -> "wait"
    [] p = "drain" -> "join"

\* the order of the steps after spawn_with_io returned: start the input
\* thread, drain the final reader, join the input thread, wait
PcAfter(p, a) ==
  CASE p = "input" -> IF Captures(a) THEN "drain" ELSE "join"
    [] p = "drain" -> "join"
    [] p = "join" -> "wait"

\* mutant: the caller writes the input itself, byte by byte, before it goes
\* on to the drain
StartInputInline ==
  /\ pc = "input"
  /\ IF feed # None /\ sent < Len(feed[1])
       THEN /\ ~Broken(1) /\ HasRoom(1)
            /\ pipeIn' = [pipeIn EXCEPT ![1] = Append(@, feed[1][sent + 1])]
            /\ sent' = sent + 1
            /\ UNCHANGED <<pc, wr>>
       ELSE /\ pc' = PcAfter("input", api)
            /\ wr' = [wr EXCEPT ![1] = @ \ {Host}]
            /\ UNCHANGED <<pipeIn, sent>>
  /\ UNCHANGED <<connections, input, api, feed, next, result, output, sink,
                 failedAt, child, status, waited, early, fdIn, fdOut, fdErr,
                 rdCnt, rdr, outW, errW, thread, copyErr, delivered, hvars, ovars>>

\* match input { Some(..) => spawn.stdin.map(|stdin| thread::spawn(..)) }:
\* the stdin handle moves into the forwarding thread
StartInput ==
  /\ pc = "input"
  /\ IF feed # None
       THEN /\ thread' = "running"
            /\ wr' = [wr EXCEPT ![1] = (@ \ {Host}) \cup {Thread}]
       ELSE UNCHANGED <<thread, wr>>
  /\ pc' = PcAfter("input", api)
  /\ UNCHANGED <<connections, input, api, feed, next, result, output, sink,
                 failedAt, child, status, waited, early, fdIn, fdOut, fdErr,
                 pipeIn, rdCnt, rdr, outW, errW, sent, copyErr,
                 delivered, hvars, ovars>>

\* read_to_end / io::copy on the last stage's stdout: one byte moves
HostRead ==
  /\ pc = "drain"
  /\ Readable(StdoutPipe)
  /\ rdCnt' = [rdCnt EXCEPT ![StdoutPipe] = @ + 1]
  /\ IF api = "output_bytes"
       THEN /\ output' = Append(output, Buffered(StdoutPipe)[1])
            /\ UNCHANGED sink
       ELSE /\ sink' = Append(sink, Buffered(StdoutPipe)[1])
            /\ UNCHANGED output
  /\ UNCHANGED <<connections, input, api, feed, pc, next, result, failedAt,
                 child, status, waited, early, fdIn, fdOut, fdErr, pipeIn,
                 wr, rdr, outW, errW, thread, sent, copyErr,
                 delivered, hvars, ovars>>

\* mutant: the copy may stop before the last stage closed its stdout
HostDrainStopsEarly ==
  /\ pc = "drain"
  /\ pc' = PcAfter("drain", api)
  /\ rdr' = IF api = "output_bytes" THEN rdr
            ELSE [rdr EXCEPT ![StdoutPipe] = @ \ {Host}]
  /\ UNCHANGED <<connections, input, api, feed, next, result, output, sink,
                 failedAt, child, status, waited, early, fdIn, fdOut, fdErr,
                 pipeIn, rdCnt, wr, outW, errW, thread, sent, copyErr,
                 delivered, hvars, ovars>>

\* the drain reaches EOF; stream_to and run_with_io drop the BufReader at
\* the end of the copy statement, execute_internal keeps it until it returns
HostDrainEof ==
  /\ pc = "drain"
  /\ AtEof(StdoutPipe)
  /\ pc' = PcAfter("drain", api)
  /\ rdr' = IF api = "output_bytes" THEN rdr
            ELSE [rdr EXCEPT ![StdoutPipe] = @ \ {Host}]
  /\ UNCHANGED <<connections, input, api, feed, next, result, output, sink,
                 failedAt, child, status, waited, early, fdIn, fdOut, fdErr,
                 pipeIn, rdCnt, wr, outW, errW, thread, sent, copyErr,
                 delivered, hvars, ovars>>

\* io::copy into the caller's writer fails: map_err(..)? returns the error
HostDrainFail ==
  /\ pc = "drain"
  /\ api \in {"stream_to", "run_with_io"}
  /\ Readable(StdoutPipe)
  /\ rdCnt' = [rdCnt EXCEPT ![StdoutPipe] = @ + 1]
  /\ copyErr' = TRUE
  /\ result' = "Err"
  /\ pc' = "done"
  /\ wr' = CloseAll(wr, Host)
  /\ rdr' = CloseAll(rdr, Host)
  /\ UNCHANGED <<connections, input, api, feed, next, output, sink, failedAt,
                 child, status, waited, early, fdIn, fdOut, fdErr, pipeIn,
                 outW, errW, thread, sent, delivered, hvars, ovars>>

\* if let Some(handle) = input_handle { handle.join() }; run_with_io never
\* joins its thread
HostJoin ==
  /\ pc = "join"
  /\ api = "run_with_io" \/ thread \in {"none", "done"}
  /\ pc' = PcAfter("join", api)
  /\ next' = 1
  /\ UNCHANGED <<connections, input, api, feed, result, output, sink,
                 failedAt, child, status, waited, early, fdIn, fdOut, fdErr,
                 pipeIn, rdCnt, wr, rdr, outW, errW, thread, sent, copyErr,
                 delivered, hvars, ovars>>

\* ---- PipelineHandle::wait ----
\* mutant: only the last child's status decides the result
WaitFailsLastOnly(i) == i = N /\ ~ExitStatusSuccess(status[i])

\* mutant: the first child's status is not looked at
WaitFailsAfterFirst(i) == i > 1 /\ ~ExitStatusSuccess(status[i])

\* if !status.success() { return Err(..) }
WaitFails(i) == ~ExitStatusSuccess(status[i])

\* one iteration of `for mut child in self.children`: child.wait() blocks
\* until the child has exited; `spawn.handle.wait()?; Ok(output)` hands the
\* drained bytes to the caller only when wait returned Ok
HostWait(i) ==
  /\ pc = "wait"
  /\ next = i
  /\ i <= N
  /\ child[i] = "exited"
  /\ waited' = [waited EXCEPT ![i] = TRUE]
  /\ IF WaitFails(i) \/ i = N
       THEN /\ result' = IF WaitFails(i) THEN "Err" ELSE "Ok"
            /\ delivered' = IF WaitFails(i) THEN None ELSE Some(output)
            /\ pc' = "done"
            /\ wr' = CloseAll(wr, Host)
            /\ rdr' = CloseAll(rdr, Host)
            /\ UNCHANGED next
       ELSE /\ next' = i + 1
            /\ UNCHANGED <<result, delivered, pc, wr, rdr>>
  /\ UNCHANGED <<connections, input, api, feed, output, sink, failedAt,
                 child, status, early, fdIn, fdOut, fdErr, pipeIn, rdCnt,
                 outW, errW, thread, sent, copyErr, hvars, ovars>>

\* ---- the input forwarding thread ----
\* stdin.write_all(&bytes) / io::copy(&mut reader, &mut stdin): one byte
ThreadWrite ==
  /\ thread = "running"
  /\ sent < Len(feed[1])
  /\ ~Broken(1)
  /\ HasRoom(1)
  /\ pipeIn' = [pipeIn EXCEPT ![1] = Append(@, feed[1][sent + 1])]
  /\ sent' = sent + 1
  /\ UNCHANGED <<connections, input, api, feed, pc, next, result, output,
                 sink, failedAt, child, status, waited, early, fdIn, fdOut,
                 fdErr, rdCnt, wr, rdr, outW, errW, thread, copyErr,
                 delivered, hvars, ovars>>

\* mutant: the thread ends but the stdin handle stays open
ThreadCloseLeak ==
  /\ thread = "running"
  /\ sent = Len(feed[1]) \/ Broken(1)
  /\ thread' = "done"
  /\ UNCHANGED <<connections, input, api, feed, pc, next, result, output,
                 sink, failedAt, child, status, waited, early, fdIn, fdOut,
                 fdErr, pipeIn, rdCnt, wr, rdr, outW, errW, sent, copyErr,
                 delivered,
                 hvars, ovars>>

\* mutant: write instead of write_all, the copy ends after a short write
ThreadCloseShortWrite ==
  /\ thread = "running"
  /\ sent >= 1 \/ sent = Len(feed[1]) \/ Broken(1)
  /\ thread' = "done"
  /\ wr' = CloseAll(wr, Thread)
  /\ UNCHANGED <<connections, input, api, feed, pc, next, result, output,
                 sink, failedAt, child, status, waited, early, fdIn, fdOut,
                 fdErr, pipeIn, rdCnt, rdr, outW, errW, sent, copyErr,
                 delivered, hvars, ovars>>

\* mutant: a failed write is propagated and fails the call
ThreadClosePropagate ==
  /\ thread = "running"
  /\ sent = Len(feed[1]) \/ Broken(1)
  /\ thread' = "done"
  /\ wr' = CloseAll(wr, Thread)
  /\ IF sent < Len(feed[1]) /\ pc # "done"
       THEN result' = "Err" /\ pc' = "done"
       ELSE UNCHANGED <<result, pc>>
  /\ UNCHANGED <<connections, input, api, feed, next, output, sink, failedAt,
                 child, status, waited, early, fdIn, fdOut, fdErr, pipeIn,
                 rdCnt, rdr, outW, errW, sent, copyErr,
                 delivered, hvars, ovars>>

\* the copy ends, by exhausting the source or by a failed write (EPIPE,
\* discarded by `let _ =`); the closure ends and stdin is dropped
ThreadClose ==
  /\ thread = "running"
  /\ sent = Len(feed[1]) \/ Broken(1)
  /\ thread' = "done"
  /\ wr' = CloseAll(wr, Thread)
  /\ UNCHANGED <<connections, input, api, feed, pc, next, result, output,
                 sink, failedAt, child, status, waited, early, fdIn, fdOut,
                 fdErr, pipeIn, rdCnt, rdr, outW, errW, sent, copyErr,
                 delivered, hvars, ovars>>

\* ---- the child processes ----
Fd(i, s) == IF s = "out" THEN fdOut[i] ELSE fdErr[i]

\* the stream(s) of stage i that its outgoing edge forwards
Forwarded(i) ==
  IF i >= N THEN {"out"}
  ELSE IF NextPipeMode(i) = "Stdout" THEN {"out"}
  ELSE IF NextPipeMode(i) = "Stderr" THEN {"err"} ELSE {"out", "err"}

\* stage i reads one byte from its stdin and writes it to stream s
StageCopy(i, s) ==
  /\ child[i] = "running"
  /\ Readable(fdIn[i])
  /\ Fd(i, s) # 0 => (~Broken(Fd(i, s)) /\ HasRoom(Fd(i, s)))
  /\ rdCnt' = [rdCnt EXCEPT ![fdIn[i]] = @ + 1]
  /\ pipeIn' = IF Fd(i, s) = 0 THEN pipeIn
               ELSE [pipeIn EXCEPT ![Fd(i, s)] = Append(@, Buffered(fdIn[i])[1])]
  /\ outW' = IF s = "out" THEN [outW EXCEPT ![i] = Append(@, Buffered(fdIn[i])[1])]
             ELSE outW
  /\ errW' = IF s = "err" THEN [errW EXCEPT ![i] = Append(@, Buffered(fdIn[i])[1])]
             ELSE errW
  /\ UNCHANGED <<connections, input, api, feed, pc, next, result, output,
                 sink, failedAt, child, status, waited, early, fdIn, fdOut,
                 fdErr, wr, rdr, thread, sent, copyErr,
                 delivered, hvars, ovars>>

\* process exit: every descriptor of the process is closed
Exit(i, st) ==
  /\ child' = [child EXCEPT ![i] = "exited"]
  /\ status' = [status EXCEPT ![i] = st]
  /\ wr' = CloseAll(wr, Stage(i))
  /\ rdr' = CloseAll(rdr, Stage(i))

\* stage i writes to a pipe whose read end is closed: SIGPIPE kills it
StageSigpipe(i, s) ==
  /\ child[i] = "running"
  /\ Readable(fdIn[i])
  /\ Fd(i, s) # 0
  /\ Broken(Fd(i, s))
  /\ Exit(i, Signaled)
  /\ early' = [early EXCEPT ![i] = TRUE]
  /\ UNCHANGED <<connections, input, api, feed, pc, next, result, output,
                 sink, failedAt, waited, fdIn, fdOut, fdErr, pipeIn, rdCnt,
                 outW, errW, thread, sent, copyErr,
                 delivered, hvars, ovars>>

\* stage i sees EOF on its stdin and exits with code c
StageExit(i, c) ==
  /\ child[i] = "running"
  /\ AtEof(fdIn[i])
  /\ Exit(i, Exited(c))
  /\ UNCHANGED <<connections, input, api, feed, pc, next, result, output,
                 sink, failedAt, waited, early, fdIn, fdOut, fdErr, pipeIn,
                 rdCnt, outW, errW, thread, sent, copyErr,
                 delivered, hvars, ovars>>

\* stage i runs a program that does not read its stdin (echo, true,
\* sh -c "exit 1"): it exits with code c while its stdin is still open
StageExitEarly(i, c) ==
  /\ child[i] = "running"
  /\ ~AtEof(fdIn[i])
  /\ rdCnt[fdIn[i]] = 0
  /\ Exit(i, Exited(c))
  /\ early' = [early EXCEPT ![i] = TRUE]
  /\ UNCHANGED <<connections, input, api, feed, pc, next, result, output,
                 sink, failedAt, waited, fdIn, fdOut, fdErr, pipeIn, rdCnt,
                 outW, errW, thread, sent, copyErr,
                 delivered, hvars, ovars>>

\* ---- specifications ----
Build ==
  \/ \E mode \in PipeMode : PipelinePipe(mode)
  \/ \E b \in Inputs : PipelineInput(b)
  \/ \E a \in Api : Execute(a)
  \/ \E r \in Inputs : RunWithIo(r)

Orchestrate ==
  \/ \E i \in Stages : SpawnStage(i)
  \/ \E i \in Stages : SpawnFail(i)
  \/ StartInput
  \/ HostRead
  \/ HostDrainEof
  \/ HostDrainFail
  \/ HostJoin
  \/ \E i \in Stages : HostWait(i)

Forward == ThreadWrite \/ ThreadClose

\* a stage that reads its stdin to EOF, writes to the stream its outgoing
\* edge forwards and exits at EOF
StageForward(i) ==
  \/ \E s \in Forwarded(i) : StageCopy(i, s)
  \/ \E s \in Forwarded(i) : StageSigpipe(i, s)
  \/ \E c \in ExitCodes : StageExit(i, c)

\* anything else a stage may do
StageOther(i) ==
  \/ \E s \in {"out", "err"} \ Forwarded(i) : StageCopy(i, s)
  \/ \E s \in {"out", "err"} \ Forwarded(i) : StageSigpipe(i, s)
  \/ \E c \in ExitCodes : StageExitEarly(i, c)

Next ==
  \/ Build
  \/ Orchestrate
  \/ Forward
  \/ \E i \in Stages : StageForward(i)
  \/ \E i \in Stages : StageOther(i)

Spec == Init /\ [][Next]_vars

\* the same program run with stages that read their stdin to EOF, write only
\* to the forwarded stream and exit at EOF; every thread and every process
\* that can take a step eventually does
NextLive ==
  \/ Build
  \/ Orchestrate
  \/ Forward
  \/ \E i \in Stages : StageForward(i)

LiveSpec ==
  /\ Init
  /\ [][NextLive]_vars
  /\ WF_vars(Orchestrate)
  /\ WF_vars(Forward)
  /\ \A i \in Stages : WF_vars(StageForward(i))

\* ---- Handle and Status (src/src/cmd/handle.rs, src/src/cmd/status.rs) ----
\* Handle::from(children): n spawned children, none of them exited yet
HandleFrom(n) ==
  /\ hChild = <<>>
  /\ hChild' = [i \in 1..n |-> NotExited]
  /\ UNCHANGED <<pvars, ovars, hIdx, hStatus, hRet, hCodes, hExited>>

\* a child process ends with exit status st
HChildExit(i, st) ==
  /\ i \in 1..Len(hChild)
  /\ hChild[i] = NotExited
  /\ hChild' = [hChild EXCEPT ![i] = st]
  /\ hExited' = Append(hExited, i)
  /\ UNCHANGED <<pvars, ovars, hIdx, hStatus, hRet, hCodes>>

\* mutant: the children are collected in the order in which they exit
HandleWaitAsExited(i) ==
  /\ hRet = None
  /\ hIdx <= Len(hExited)
  /\ i = hExited[hIdx]
  /\ hStatus' = Append(hStatus, hChild[i])
  /\ hIdx' = hIdx + 1
  /\ UNCHANGED <<pvars, ovars, hChild, hRet, hCodes, hExited>>

\* Handle::wait, one iteration: status.push(child.wait()?)
HandleWait(i) ==
  /\ hRet = None
  /\ hIdx = i
  /\ i \in 1..Len(hChild)
  /\ hChild[i] # NotExited
  /\ hStatus' = Append(hStatus, hChild[i])
  /\ hIdx' = i + 1
  /\ UNCHANGED <<pvars, ovars, hChild, hRet, hCodes, hExited>>

\* Status::success: for status in &self.0 { if !status.success() { return
\* false } } true
RECURSIVE SuccessFrom(_, _)
SuccessFrom(st, k) ==
  IF k > Len(st) THEN TRUE
  ELSE IF ~ExitStatusSuccess(st[k]) THEN FALSE
  ELSE SuccessFrom(st, k + 1)

\* mutant: only the first status is looked at
StatusSuccessFirst(st) == Len(st) = 0 \/ ExitStatusSuccess(st[1])

StatusSuccess(st) == SuccessFrom(st, 1)

\* mutant: a stage without an exit code is reported as code 1
StatusCodeOrOne(st) ==
  [k \in 1..Len(st) |-> IF st[k][1] = "exit" THEN st[k][2] ELSE 1]

\* Status::code: self.0.iter().flat_map(|status| status.code()), collected
RECURSIVE CodeFrom(_, _)
CodeFrom(st, k) ==
  IF k > Len(st) THEN <<>> ELSE ExitStatusCode(st[k]) \o CodeFrom(st, k + 1)

StatusCode(st) == CodeFrom(st, 1)

\* Handle::wait returns Ok(Status(status)); the caller asks success() and
\* code()
HandleReturn ==
  /\ hRet = None
  /\ hChild # <<>>
  /\ hIdx = Len(hChild) + 1
  /\ hRet' = Some(StatusSuccess(hStatus))
  /\ hCodes' = StatusCode(hStatus)
  /\ UNCHANGED <<pvars, ovars, hChild, hIdx, hStatus, hExited>>

HandleNext ==
  \/ \E n \in 1..MaxChildren : HandleFrom(n)
  \/ \E i \in 1..MaxChildren : \E st \in ExitStatuses : HChildExit(i, st)
  \/ \E i \in 1..MaxChildren : HandleWait(i)
  \/ HandleReturn

HandleSpec == Init /\ [][HandleNext]_vars

\* ---- Cmd: builder and spawn of one command (src/src/cmd/command.rs) ----
\* the other machines' variables, left alone by the Cmd actions
notCmd == <<pvars, hvars, svars, tvars, kvars, qvars, evars, xvars, inputCalls>>

Programs == {"ok", "missing", "empty"}
Keys == {"K1", "K2"}
Vals == {1, 2}
EnvKeys == Keys \cup {"HOME"}

\* the environment of the host process: K1 and HOME are set, K2 is not
Inherited ==
  [k \in EnvKeys |-> IF k = "K2" THEN None ELSE Some(0)]

\* the OS can execute the program: exec fails for a missing or empty name
Executable(p) == p = "ok"

\* mutant: Cmd::new rejects a program that cannot be executed
CmdNewValidates(p) ==
  /\ program = "unset"
  /\ program' = p
  /\ spawnErr' = IF Executable(p) THEN None ELSE Some(p)
  /\ UNCHANGED <<envs, spawned, procEnv, notCmd>>

\* Cmd::new(program): the name is stored as given
CmdNew(p) ==
  /\ program = "unset"
  /\ program' = p
  /\ UNCHANGED <<envs, spawned, spawnErr, procEnv, notCmd>>

\* Cmd::env(key, val): self.envs.push((key, val))
CmdEnv(k, v) ==
  /\ program # "unset"
  /\ spawned = "none"
  /\ Len(envs) < MaxEnvs
  /\ envs' = Append(envs, <<k, v>>)
  /\ UNCHANGED <<program, spawned, spawnErr, procEnv, notCmd>>

\* mutant: a key that was already overridden keeps its first value
RECURSIVE ApplyEnvsFirstWins(_, _, _)
ApplyEnvsFirstWins(env, es, j) ==
  IF j > Len(es) THEN env
  ELSE ApplyEnvsFirstWins(
         IF \E h \in 1..(j - 1) : es[h][1] = es[j][1] THEN env
         ELSE [env EXCEPT ![es[j][1]] = Some(es[j][2])], es, j + 1)

\* build_std_command_static: for (key, val) in &cmd_def.envs
\* { cmd.env(key, val) }; std's Command::env inserts into a map over the
\* inherited environment
RECURSIVE ApplyEnvs(_, _, _)
ApplyEnvs(env, es, j) ==
  IF j > Len(es) THEN env
  ELSE ApplyEnvs([env EXCEPT ![es[j][1]] = Some(es[j][2])], es, j + 1)

\* cmd.spawn().map_err(|e| Error { message: format!("Failed to spawn
\* command: {}", program), .. })?
CmdSpawn ==
  /\ program # "unset"
  /\ spawned = "none"
  /\ IF Executable(program)
       THEN /\ spawned' = "running"
            /\ procEnv' = Some(ApplyEnvs(Inherited, envs, 1))
            /\ UNCHANGED spawnErr
       ELSE /\ spawned' = "failed"
            /\ spawnErr' = Some(program)
            /\ UNCHANGED procEnv
  /\ UNCHANGED <<program, envs, notCmd>>

CmdNext ==
  \/ \E p \in Programs : CmdNew(p)
  \/ \E k \in Keys : \E v \in Vals : CmdEnv(k, v)
  \/ CmdSpawn

CmdSpec == Init /\ [][CmdNext]_vars

\* ---- PipelineHandle of a spawned pipeline (src/src/cmd/pipeline.rs) ----
\* the other machines' variables, left alone by these actions
notSpawn == <<pvars, hvars, cvars, tvars, kvars, qvars, evars, xvars, inputCalls>>

SpawnApi == {"spawn_with_io", "spawn_with_stdin", "spawn_with_stdout",
             "spawn_with_stderr", "spawn_with_both"}

\* the calls that hand spawn.stdout to the caller; the others drop it
HandsStdout(a) == a \in {"spawn_with_io", "spawn_with_stdout", "spawn_with_both"}

Ok(v) == <<"Ok", v>>
Err(m) == <<"Err", m>>

\* spawn_with_*: spawn_with_io does last_stdout = child.stdout.take() for
\* the last child and returns it beside the handle; the caller keeps it or
\* it is dropped with the PipelineSpawn
SpawnWith(a, n) ==
  /\ sApi = "none"
  /\ sApi' = a
  /\ sProc' = [i \in 1..n |-> NotExited]
  /\ sChildOut' = None
  /\ sCallerOut' = IF HandsStdout(a) THEN "held" ELSE "closed"
  /\ UNCHANGED <<sWritten, sRead, sCall, sIdx, sRet, notSpawn>>

\* the read end of the last stage's stdout pipe is open somewhere
SOutOpen == sCallerOut = "held" \/ sChildOut # None

\* the last stage writes its next byte to stdout
SLastWrite ==
  /\ sProc # <<>>
  /\ sProc[Len(sProc)] = NotExited
  /\ Len(sWritten) < MaxInput
  /\ SOutOpen
  /\ Len(sWritten) - sRead < PipeCap
  /\ sWritten' = Append(sWritten, Len(sWritten) + 1)
  /\ UNCHANGED <<sApi, sProc, sChildOut, sCallerOut, sRead, sCall, sIdx, sRet,
                 notSpawn>>

\* the last stage writes to a stdout nobody can read: SIGPIPE
SLastSigpipe ==
  /\ sProc # <<>>
  /\ sProc[Len(sProc)] = NotExited
  /\ Len(sWritten) < MaxInput
  /\ ~SOutOpen
  /\ sProc' = [sProc EXCEPT ![Len(sProc)] = Signaled]
  /\ UNCHANGED <<sApi, sChildOut, sCallerOut, sWritten, sRead, sCall, sIdx,
                 sRet, notSpawn>>

\* a stage exits with code c
SExit(i, c) ==
  /\ i \in 1..Len(sProc)
  /\ sProc[i] = NotExited
  /\ sProc' = [sProc EXCEPT ![i] = Exited(c)]
  /\ UNCHANGED <<sApi, sChildOut, sCallerOut, sWritten, sRead, sCall, sIdx,
                 sRet, notSpawn>>

\* the caller reads a byte from the ChildStdout it was handed
SCallerRead ==
  /\ sCallerOut = "held"
  /\ sRead < Len(sWritten)
  /\ sRead' = sRead + 1
  /\ UNCHANGED <<sApi, sProc, sChildOut, sCallerOut, sWritten, sCall, sIdx,
                 sRet, notSpawn>>

\* the caller drops the ChildStdout it was handed
SCallerDrop ==
  /\ sCallerOut = "held"
  /\ sCallerOut' = "closed"
  /\ UNCHANGED <<sApi, sProc, sChildOut, sWritten, sRead, sCall, sIdx, sRet,
                 notSpawn>>

\* PipelineHandle::output_bytes: if let Some(stdout) =
\* last_child.stdout.take() { read_to_end; wait for every child; return
\* Ok(output) } else Err("No stdout available to read from")
SHandleOutputBytes ==
  /\ sApi # "none"
  /\ sCall = "none"
  /\ sCall' = "output_bytes"
  /\ IF sChildOut # None
       THEN /\ \A i \in 1..Len(sProc) : sProc[i] # NotExited
            /\ sRet' = Ok(SubSeq(sWritten, sRead + 1, Len(sWritten)))
            /\ sRead' = Len(sWritten)
            /\ sChildOut' = None
       ELSE /\ sRet' = Err("No stdout available to read from")
            /\ UNCHANGED <<sRead, sChildOut>>
  /\ UNCHANGED <<sApi, sProc, sCallerOut, sWritten, sIdx, notSpawn>>

\* PipelineHandle::wait, one iteration: child.wait()?, and return Err at
\* the first child that did not succeed
SHandleWait(i) ==
  /\ sApi # "none"
  /\ sCall \in {"none", "wait"}
  /\ sRet = None
  /\ sIdx = i
  /\ i \in 1..Len(sProc)
  /\ sProc[i] # NotExited
  /\ sCall' = "wait"
  /\ sIdx' = i + 1
  /\ sRet' = IF ~ExitStatusSuccess(sProc[i])
               THEN Err("Command failed with exit code")
             ELSE IF i = Len(sProc) THEN Ok(<<>>) ELSE None
  /\ UNCHANGED <<sApi, sProc, sChildOut, sCallerOut, sWritten, sRead,
                 notSpawn>>

SpawnNext ==
  \/ \E a \in SpawnApi : \E n \in 1..MaxStages : SpawnWith(a, n)
  \/ SLastWrite
  \/ SLastSigpipe
  \/ \E i \in 1..MaxStages : \E c \in ExitCodes : SExit(i, c)
  \/ SCallerRead
  \/ SCallerDrop
  \/ SHandleOutputBytes
  \/ \E i \in 1..MaxStages : SHandleWait(i)

SpawnSpec == Init /\ [][SpawnNext]_vars

\* ---- ThreadHandle of a pipeline with a Write sink (src/src/cmd/io/writer.rs,
\* src/src/cmd/handle.rs) ----
\* the other machines' variables, left alone by these actions
notThread == <<pvars, hvars, cvars, svars, kvars, qvars, evars, xvars, inputCalls>>

\* Pipeline::inner_spawn(piped_stdin, piped_stdout), whose body is not part
\* of src/cmd: taken from the specification, it spawns the n commands left
\* to right, each stdout wired to the next stdin, and pipes the last stdout,
\* whose write end only the last stage holds
InnerSpawn(n) == [i \in 1..n |-> NotExited]

\* Spawn::spawn of Pipeline<Inherit, W>: inner_spawn(false, true)?, then
\* handle.take_stdout() is moved into a thread that copies it into the
\* writer
WriterSpawn(n, f) ==
  /\ tChild = <<>>
  /\ tChild' = InnerSpawn(n)
  /\ tThread' = "copying"
  /\ tFaulty' = f
  /\ UNCHANGED <<tIdx, tWritten, tRead, tSink, tRet, notThread>>

\* the last stage writes its next byte to stdout
TLastWrite ==
  /\ tChild # <<>>
  /\ tChild[Len(tChild)] = NotExited
  /\ Len(tWritten) < MaxInput
  /\ tThread = "copying"
  /\ Len(tWritten) - tRead < PipeCap
  /\ tWritten' = Append(tWritten, Len(tWritten) + 1)
  /\ UNCHANGED <<tChild, tIdx, tRead, tSink, tThread, tFaulty, tRet,
                 notThread>>

\* the last stage writes after the thread dropped the reader: SIGPIPE
TLastSigpipe ==
  /\ tChild # <<>>
  /\ tChild[Len(tChild)] = NotExited
  /\ Len(tWritten) < MaxInput
  /\ tThread = "failed"
  /\ tChild' = [tChild EXCEPT ![Len(tChild)] = Signaled]
  /\ UNCHANGED <<tIdx, tWritten, tRead, tSink, tThread, tFaulty, tRet,
                 notThread>>

\* a stage exits with code c
TExit(i, c) ==
  /\ i \in 1..Len(tChild)
  /\ tChild[i] = NotExited
  /\ tChild' = [tChild EXCEPT ![i] = Exited(c)]
  /\ UNCHANGED <<tIdx, tWritten, tRead, tSink, tThread, tFaulty, tRet,
                 notThread>>

\* std::io::copy(&mut reader, &mut writer), one byte read and written
TThreadCopy ==
  /\ tThread = "copying"
  /\ tRead < Len(tWritten)
  /\ tRead' = tRead + 1
  /\ tSink' = Append(tSink, tWritten[tRead + 1])
  /\ UNCHANGED <<tChild, tIdx, tWritten, tThread, tFaulty, tRet, notThread>>

\* std::io::copy(..)?: the writer rejects the byte, the closure returns the
\* error and drops the reader
TThreadCopyFail ==
  /\ tThread = "copying"
  /\ tFaulty
  /\ tRead < Len(tWritten)
  /\ tRead' = tRead + 1
  /\ tThread' = "failed"
  /\ UNCHANGED <<tChild, tIdx, tWritten, tSink, tFaulty, tRet, notThread>>

\* std::io::copy returns at EOF: nothing buffered and the last stage, the
\* only holder of the write end, has exited; the closure returns Ok(writer)
TThreadEof ==
  /\ tThread = "copying"
  /\ tRead = Len(tWritten)
  /\ tChild[Len(tChild)] # NotExited
  /\ tThread' = "eof"
  /\ UNCHANGED <<tChild, tIdx, tWritten, tRead, tSink, tFaulty, tRet,
                 notThread>>

\* ThreadHandle::wait: self.handle.wait()?, one iteration of Handle::wait
TWait(i) ==
  /\ tRet = None
  /\ tIdx = i
  /\ i \in 1..Len(tChild)
  /\ tChild[i] # NotExited
  /\ tIdx' = i + 1
  /\ UNCHANGED <<tChild, tWritten, tRead, tSink, tThread, tFaulty, tRet,
                 notThread>>

\* mutant: wait returns the writer without joining the thread
TJoinSkipped ==
  /\ tRet = None
  /\ tChild # <<>>
  /\ tIdx = Len(tChild) + 1
  /\ tRet' = Ok(tSink)
  /\ UNCHANGED <<tChild, tIdx, tWritten, tRead, tSink, tThread, tFaulty,
                 notThread>>

\* ThreadHandle::wait: let writer = self.thread.join().expect(..)?;
\* Ok((status, writer))
TJoin ==
  /\ tRet = None
  /\ tChild # <<>>
  /\ tIdx = Len(tChild) + 1
  /\ tThread \in {"eof", "failed"}
  /\ tRet' = IF tThread = "eof" THEN Ok(tSink) ELSE Err("io")
  /\ UNCHANGED <<tChild, tIdx, tWritten, tRead, tSink, tThread, tFaulty,
                 notThread>>

ThreadNext ==
  \/ \E n \in 1..MaxStages : \E f \in BOOLEAN : WriterSpawn(n, f)
  \/ TLastWrite
  \/ TLastSigpipe
  \/ \E i \in 1..MaxStages : \E c \in ExitCodes : TExit(i, c)
  \/ TThreadCopy
  \/ TThreadCopyFail
  \/ TThreadEof
  \/ \E i \in 1..MaxStages : TWait(i)
  \/ TJoin

ThreadSpec == Init /\ [][ThreadNext]_vars

\* ---- pipelines executed from two host threads (src/src/cmd/pipeline.rs) ----
\* Each call is output_bytes() with an input attached on a pipeline of
\* MaxStages filters that copy stdin to stdout until EOF and exit with 0.
\* The host threads share one descriptor table: a child is forked from it.
notCalls == <<pvars, hvars, cvars, svars, tvars, qvars, evars, xvars, inputCalls>>

\* the input of call c: bytes tagged with the call
KInput(c) == [k \in 1..MaxInput |-> <<c, k>>]

\* mutant: the child keeps every pipe end the host process holds when it is
\* forked, those of the other call included
KInheritedAll(c) == {<<d, j>> \in Calls \X KPipes : Host \in kWr[d][j]}

\* the pipe ends a child keeps across exec beside its own stdio: none,
\* Stdio::piped() and std::io::pipe() open every descriptor close-on-exec
KInherited(c) == {}

\* Pipeline::output_bytes is called on thread c
KCall(c) ==
  /\ kPc[c] = "idle"
  /\ kPc' = [kPc EXCEPT ![c] = "spawn"]
  /\ kNext' = [kNext EXCEPT ![c] = 1]
  /\ UNCHANGED <<kRun, kWr, kBuf, kThread, kSent, kOut, notCalls>>

\* spawn_with_io, one iteration: stdin is Stdio::piped() for stage 0 (the
\* host keeps the write end) or the previous reader; stdout is the writer of
\* a new pipe, or Stdio::piped() for the last stage; cmd.spawn()
KSpawnStage(c, i) ==
  /\ kPc[c] = "spawn"
  /\ kNext[c] = i
  /\ kRun' = [kRun EXCEPT ![c][i] = "running"]
  /\ kWr' = [d \in Calls |-> [j \in KPipes |->
               kWr[d][j]
               \cup (IF d = c /\ j = 0 /\ i = 1 THEN {Host} ELSE {})
               \cup (IF d = c /\ j = i THEN {CallStage(c, i)} ELSE {})
               \cup (IF <<d, j>> \in KInherited(c)
                       THEN {CallStage(c, i)} ELSE {})]]
  /\ kNext' = [kNext EXCEPT ![c] = i + 1]
  /\ kPc' = [kPc EXCEPT ![c] = IF i = MaxStages THEN "start" ELSE "spawn"]
  /\ UNCHANGED <<kBuf, kThread, kSent, kOut, notCalls>>

\* execute_internal: spawn.stdin is moved into thread::spawn
KStartInput(c) ==
  /\ kPc[c] = "start"
  /\ kThread' = [kThread EXCEPT ![c] = "running"]
  /\ kWr' = [kWr EXCEPT ![c][0] = (@ \ {Host}) \cup {CallThread(c)}]
  /\ kPc' = [kPc EXCEPT ![c] = "drain"]
  /\ UNCHANGED <<kNext, kRun, kBuf, kSent, kOut, notCalls>>

\* stdin.write_all(&bytes), one byte
KThreadWrite(c) ==
  /\ kThread[c] = "running"
  /\ kSent[c] < MaxInput
  /\ Len(kBuf[c][0]) < PipeCap
  /\ kBuf' = [kBuf EXCEPT ![c][0] = Append(@, KInput(c)[kSent[c] + 1])]
  /\ kSent' = [kSent EXCEPT ![c] = @ + 1]
  /\ UNCHANGED <<kPc, kNext, kRun, kWr, kThread, kOut, notCalls>>

\* drop(stdin): the thread ends
KThreadClose(c) ==
  /\ kThread[c] = "running"
  /\ kSent[c] = MaxInput
  /\ kThread' = [kThread EXCEPT ![c] = "done"]
  /\ kWr' = [kWr EXCEPT ![c][0] = @ \ {CallThread(c)}]
  /\ UNCHANGED <<kPc, kNext, kRun, kBuf, kSent, kOut, notCalls>>

\* stage i of call c copies one byte from its stdin to its stdout
KStageCopy(c, i) ==
  /\ kRun[c][i] = "running"
  /\ kBuf[c][i - 1] # <<>>
  /\ Len(kBuf[c][i]) < PipeCap
  /\ kBuf' = [kBuf EXCEPT ![c][i - 1] = Tail(@),
                          ![c][i] = Append(@, Head(kBuf[c][i - 1]))]
  /\ UNCHANGED <<kPc, kNext, kRun, kWr, kThread, kSent, kOut, notCalls>>

\* stage i of call c reads EOF on its stdin and exits: every descriptor it
\* holds is closed
KStageExit(c, i) ==
  /\ kRun[c][i] = "running"
  /\ kBuf[c][i - 1] = <<>>
  /\ kWr[c][i - 1] = {}
  /\ kRun' = [kRun EXCEPT ![c][i] = "exited"]
  /\ kWr' = [d \in Calls |-> [j \in KPipes |-> kWr[d][j] \ {CallStage(c, i)}]]
  /\ UNCHANGED <<kPc, kNext, kBuf, kThread, kSent, kOut, notCalls>>

\* reader.read_to_end(&mut output), one byte
KHostRead(c) ==
  /\ kPc[c] = "drain"
  /\ kBuf[c][MaxStages] # <<>>
  /\ kOut' = [kOut EXCEPT ![c] = Append(@, Head(kBuf[c][MaxStages]))]
  /\ kBuf' = [kBuf EXCEPT ![c][MaxStages] = Tail(@)]
  /\ UNCHANGED <<kPc, kNext, kRun, kWr, kThread, kSent, notCalls>>

\* read_to_end returns at EOF
KHostEof(c) ==
  /\ kPc[c] = "drain"
  /\ kBuf[c][MaxStages] = <<>>
  /\ kWr[c][MaxStages] = {}
  /\ kPc' = [kPc EXCEPT ![c] = "join"]
  /\ UNCHANGED <<kNext, kRun, kWr, kBuf, kThread, kSent, kOut, notCalls>>

\* let _ = handle.join()
KHostJoin(c) ==
  /\ kPc[c] = "join"
  /\ kThread[c] = "done"
  /\ kPc' = [kPc EXCEPT ![c] = "wait"]
  /\ kNext' = [kNext EXCEPT ![c] = 1]
  /\ UNCHANGED <<kRun, kWr, kBuf, kThread, kSent, kOut, notCalls>>

\* spawn.handle.wait()?, one iteration; Ok(output) after the last one
KHostWait(c, i) ==
  /\ kPc[c] = "wait"
  /\ kNext[c] = i
  /\ kRun[c][i] = "exited"
  /\ kNext' = [kNext EXCEPT ![c] = i + 1]
  /\ kPc' = [kPc EXCEPT ![c] = IF i = MaxStages THEN "done" ELSE "wait"]
  /\ UNCHANGED <<kRun, kWr, kBuf, kThread, kSent, kOut, notCalls>>

KHost(c) ==
  \/ \E i \in Stages : KSpawnStage(c, i)
  \/ KStartInput(c)
  \/ KHostRead(c)
  \/ KHostEof(c)
  \/ KHostJoin(c)
  \/ \E i \in Stages : KHostWait(c, i)

KForward(c) == KThreadWrite(c) \/ KThreadClose(c)

KStage(c, i) == KStageCopy(c, i) \/ KStageExit(c, i)

ConcNext ==
  \/ \E c \in Calls : KCall(c)
  \/ \E c \in Calls : KHost(c)
  \/ \E c \in Calls : KForward(c)
  \/ \E c \in Calls : \E i \in Stages : KStage(c, i)

\* every host thread, forwarding thread and child process keeps running
ConcSpec ==
  /\ Init
  /\ [][ConcNext]_vars
  /\ \A c \in Calls : WF_vars(KHost(c)) /\ WF_vars(KForward(c))
  /\ \A c \in Calls : \A i \in Stages : WF_vars(KStage(c, i))

\* ---- echo of an executed pipeline (src/src/cmd/pipeline.rs,
\* src/src/cmd/command.rs) ----
notQ == <<pvars, hvars, cvars, svars, tvars, kvars, evars, xvars, inputCalls>>

EchoApi == {"run", "output_bytes", "stream_to", "run_with_io", "spawn_with_io"}

\* Cmd::no_echo / Pipeline::no_echo: self.suppress_echo = true
QNoEcho ==
  /\ qPc = "built"
  /\ ~qSuppress
  /\ qSuppress' = TRUE
  /\ UNCHANGED <<qIsPipeline, qStages, qApi, qAsked, qSpawned, qEchoAt, qPc,
                 notQ>>

\* Cmd::into_pipeline (through input, or any executing call): the flag is
\* copied
QIntoPipeline ==
  /\ qPc = "built"
  /\ ~qIsPipeline
  /\ qIsPipeline' = TRUE
  /\ UNCHANGED <<qStages, qSuppress, qApi, qAsked, qSpawned, qEchoAt, qPc,
                 notQ>>

\* Cmd::pipe(next): suppress_echo = self.suppress_echo || next.suppress_echo;
\* Pipeline::pipe(cmd) pushes cmd and leaves the flag alone
QPipe(nextSuppressed) ==
  /\ qPc = "built"
  /\ qStages < MaxStages
  /\ qStages' = qStages + 1
  /\ qIsPipeline' = TRUE
  /\ qSuppress' = IF qIsPipeline THEN qSuppress
                  ELSE qSuppress \/ nextSuppressed
  /\ UNCHANGED <<qApi, qAsked, qSpawned, qEchoAt, qPc, notQ>>

\* echo_pipeline: if !should_echo() { return }; eprintln!(the pipeline);
\* g is what should_echo() answers
EchoPipeline(g) == IF g THEN Append(qEchoAt, qSpawned) ELSE qEchoAt

\* an executing call is made: run and output_bytes enter execute_internal,
\* stream_to and run_with_io call spawn_with_io at once
QExecute(a) ==
  /\ qPc = "built"
  /\ qApi' = a
  /\ qAsked' = qSuppress
  /\ qIsPipeline' = TRUE
  /\ qPc' = IF a \in {"run", "output_bytes"} THEN "execute_internal"
            ELSE "spawn_with_io"
  /\ UNCHANGED <<qStages, qSuppress, qSpawned, qEchoAt, notQ>>

\* mutant: execute_internal echoes and leaves suppress_echo as it was
QExecuteInternalKeepsFlag(g) ==
  /\ qPc = "execute_internal"
  /\ qEchoAt' = IF ~qSuppress THEN EchoPipeline(g) ELSE qEchoAt
  /\ qPc' = "spawn_with_io"
  /\ UNCHANGED <<qIsPipeline, qStages, qSuppress, qApi, qAsked, qSpawned,
                 notQ>>

\* execute_internal: if !original_suppress { self.echo_pipeline() };
\* self.suppress_echo = true; self.spawn_with_io()?
QExecuteInternal(g) ==
  /\ qPc = "execute_internal"
  /\ qEchoAt' = IF ~qSuppress THEN EchoPipeline(g) ELSE qEchoAt
  /\ qSuppress' = TRUE
  /\ qPc' = "spawn_with_io"
  /\ UNCHANGED <<qIsPipeline, qStages, qApi, qAsked, qSpawned, notQ>>

\* spawn_with_io: if !self.suppress_echo { self.echo_pipeline() }, then the
\* spawn loop
QSpawnWithIo(g) ==
  /\ qPc = "spawn_with_io"
  /\ qEchoAt' = IF ~qSuppress THEN EchoPipeline(g) ELSE qEchoAt
  /\ qPc' = "loop"
  /\ UNCHANGED <<qIsPipeline, qStages, qSuppress, qApi, qAsked, qSpawned,
                 notQ>>

\* one iteration of the spawn loop: cmd.spawn() succeeds
QSpawnStage ==
  /\ qPc = "loop"
  /\ qSpawned < qStages
  /\ qSpawned' = qSpawned + 1
  /\ qPc' = IF qSpawned + 1 = qStages THEN "spawned" ELSE "loop"
  /\ UNCHANGED <<qIsPipeline, qStages, qSuppress, qApi, qAsked, qEchoAt,
                 notQ>>

\* one iteration of the spawn loop: cmd.spawn() fails and `?` returns
QSpawnFail ==
  /\ qPc = "loop"
  /\ qSpawned < qStages
  /\ qPc' = "failed"
  /\ UNCHANGED <<qIsPipeline, qStages, qSuppress, qApi, qAsked, qSpawned,
                 qEchoAt, notQ>>

QNext ==
  \/ QNoEcho
  \/ QIntoPipeline
  \/ \E b \in BOOLEAN : QPipe(b)
  \/ \E a \in EchoApi : QExecute(a)
  \/ \E g \in BOOLEAN : QExecuteInternal(g)
  \/ \E g \in BOOLEAN : QSpawnWithIo(g)
  \/ QSpawnStage
  \/ QSpawnFail

QSpec == Init /\ [][QNext]_vars

\* ---- the console Echo value (src/src/echo.rs) ----
notEcho == <<pvars, hvars, cvars, svars, tvars, kvars, qvars, xvars, inputCalls>>

EchoArgSet == {"a", "b", "c"}

\* Echo::new: Quiet when NO_ECHO is set in the environment, else Head;
\* Echo::quiet: Quiet
EchoNew(noEcho) ==
  /\ echoState = "none"
  /\ echoState' = IF noEcho THEN "Quiet" ELSE "Head"
  /\ echoFirst' = echoState'
  /\ UNCHANGED <<echoArgs, echoOut, notEcho>>

\* mutant: Tail prints the argument without the space
EchoPutNoSpace(arg) ==
  /\ echoState \in {"Quiet", "Head", "Tail"}
  /\ Len(echoArgs) < MaxPuts
  /\ echoArgs' = Append(echoArgs, arg)
  /\ echoOut' = IF echoState = "Quiet" THEN echoOut ELSE Append(echoOut, arg)
  /\ echoState' = IF echoState = "Quiet" THEN "Quiet" ELSE "Tail"
  /\ UNCHANGED <<echoFirst, notEcho>>

\* Echo::put(arg): Quiet => Quiet; Head => eprint!("{arg}"), Tail;
\* Tail => eprint!(" {arg}"), Tail
EchoPut(arg) ==
  /\ echoState \in {"Quiet", "Head", "Tail"}
  /\ Len(echoArgs) < MaxPuts
  /\ echoArgs' = Append(echoArgs, arg)
  /\ echoOut' = CASE echoState = "Quiet" -> echoOut
                  [] echoState = "Head" -> Append(echoOut, arg)
                  [] echoState = "Tail" -> echoOut \o <<" ", arg>>
  /\ echoState' = CASE echoState = "Quiet" -> "Quiet"
                    [] echoState = "Head" -> "Tail"
                    [] echoState = "Tail" -> "Tail"
  /\ UNCHANGED <<echoFirst, notEcho>>

\* Echo::end(self): Quiet => nothing, otherwise eprintln!(); the value is
\* consumed
EchoEnd ==
  /\ echoState \in {"Quiet", "Head", "Tail"}
  /\ echoOut' = IF echoState = "Quiet" THEN echoOut ELSE Append(echoOut, "\n")
  /\ echoState' = "ended"
  /\ UNCHANGED <<echoFirst, echoArgs, notEcho>>

EchoNext ==
  \/ \E noEcho \in BOOLEAN : EchoNew(noEcho)
  \/ \E arg \in EchoArgSet : EchoPut(arg)
  \/ EchoEnd

EchoSpec == Init /\ [][EchoNext]_vars

\* ---- Cmd::execute_internal, the single-command path (src/src/cmd/mod.rs) ----
notSingle == <<pvars, hvars, cvars, svars, tvars, kvars, qvars, evars,
               inputCalls>>

\* an input one byte larger than the stdin and stdout pipes hold together
LargeInput == 2 * PipeCap + 1

\* Cmd::run (capture_output FALSE) and Cmd::output (capture_output TRUE):
\* execute_internal(capture_output, false) with an input attached: stdin is
\* piped, stdout is piped when capture_output, and cmd.spawn() succeeds; the
\* child copies its stdin to its stdout
SingleExecuteInternal(capture_output, n) ==
  /\ xPc = "new"
  /\ xInput' = Iota(n)
  /\ xCapture' = capture_output
  /\ xChild' = NotExited
  /\ xPc' = "write"
  /\ UNCHANGED <<xSent, xIn, xOutBuf, xCollected, xRet, xTerm, notSingle>>

\* cmd.spawn().map_err(..)?
SingleSpawnFail(n) ==
  /\ xPc = "new"
  /\ xInput' = Iota(n)
  /\ xRet' = Err("Failed to spawn command")
  /\ xPc' = "done"
  /\ UNCHANGED <<xSent, xIn, xOutBuf, xCollected, xChild, xCapture, xTerm,
                 notSingle>>

\* stdin.write_all(input.as_bytes()) on the calling thread: one byte, when
\* the pipe has room
SingleWrite ==
  /\ xPc = "write"
  /\ xSent < Len(xInput)
  /\ xChild = NotExited
  /\ Len(xIn) < PipeCap
  /\ xIn' = Append(xIn, xInput[xSent + 1])
  /\ xSent' = xSent + 1
  /\ UNCHANGED <<xInput, xPc, xOutBuf, xCollected, xChild, xRet, xCapture,
                 xTerm, notSingle>>

\* write_all fails with a broken pipe: map_err(..)? returns
\* "Failed to write to stdin"
SingleWriteFail ==
  /\ xPc = "write"
  /\ xSent < Len(xInput)
  /\ xChild # NotExited
  /\ xRet' = Err("Failed to write to stdin")
  /\ xPc' = "done"
  /\ UNCHANGED <<xInput, xSent, xIn, xOutBuf, xCollected, xChild, xCapture,
                 xTerm, notSingle>>

\* write_all returned: drop(stdin), then child.wait_with_output()
SingleCloseStdin ==
  /\ xPc = "write"
  /\ xSent = Len(xInput)
  /\ xPc' = "collect"
  /\ UNCHANGED <<xInput, xSent, xIn, xOutBuf, xCollected, xChild, xRet,
                 xCapture, xTerm, notSingle>>

\* the child copies one byte from its stdin to its stdout pipe, when the
\* pipe has room
SingleChildCopy ==
  /\ xChild = NotExited
  /\ xCapture
  /\ xIn # <<>>
  /\ Len(xOutBuf) < PipeCap
  /\ xIn' = Tail(xIn)
  /\ xOutBuf' = Append(xOutBuf, Head(xIn))
  /\ UNCHANGED <<xInput, xPc, xSent, xCollected, xChild, xRet, xCapture,
                 xTerm, notSingle>>

\* the child copies one byte from its stdin to the inherited stdout
SingleChildPrint ==
  /\ xChild = NotExited
  /\ ~xCapture
  /\ xIn # <<>>
  /\ xIn' = Tail(xIn)
  /\ xTerm' = Append(xTerm, Head(xIn))
  /\ UNCHANGED <<xInput, xPc, xSent, xOutBuf, xCollected, xChild, xRet,
                 xCapture, notSingle>>

\* the child reads EOF on its stdin and exits with code c
SingleChildExit(c) ==
  /\ xChild = NotExited
  /\ xIn = <<>>
  /\ xPc \in {"collect", "done"}
  /\ xChild' = Exited(c)
  /\ UNCHANGED <<xInput, xPc, xSent, xIn, xOutBuf, xCollected, xRet,
                 xCapture, xTerm, notSingle>>

\* the child exits before it has read anything
SingleChildExitEarly(c) ==
  /\ xChild = NotExited
  /\ xPc = "write"
  /\ xOutBuf = <<>>
  /\ xTerm = <<>>
  /\ xSent = Len(xIn)
  /\ xChild' = Exited(c)
  /\ UNCHANGED <<xInput, xPc, xSent, xIn, xOutBuf, xCollected, xRet,
                 xCapture, xTerm, notSingle>>

\* child.wait_with_output(): one byte of stdout is read
SingleCollect ==
  /\ xPc = "collect"
  /\ xOutBuf # <<>>
  /\ xCollected' = Append(xCollected, Head(xOutBuf))
  /\ xOutBuf' = Tail(xOutBuf)
  /\ UNCHANGED <<xInput, xPc, xSent, xIn, xChild, xRet, xCapture, xTerm,
                 notSingle>>

\* wait_with_output returns at EOF with the exit status; a status that is
\* not success becomes "Command failed with exit code"
SingleReturn ==
  /\ xPc = "collect"
  /\ xOutBuf = <<>>
  /\ xChild # NotExited
  /\ xRet' = IF ExitStatusSuccess(xChild) THEN Ok(xCollected)
             ELSE Err("Command failed with exit code")
  /\ xPc' = "done"
  /\ UNCHANGED <<xInput, xSent, xIn, xOutBuf, xCollected, xChild, xCapture,
                 xTerm, notSingle>>

SingleHost ==
  \/ SingleWrite
  \/ SingleWriteFail
  \/ SingleCloseStdin
  \/ SingleCollect
  \/ SingleReturn

SingleChild ==
  \/ SingleChildCopy
  \/ SingleChildPrint
  \/ \E c \in ExitCodes : SingleChildExit(c)

SingleNext ==
  \/ \E capture_output \in BOOLEAN, n \in 0..LargeInput :
       SingleExecuteInternal(capture_output, n)
  \/ \E n \in 0..LargeInput : SingleSpawnFail(n)
  \/ SingleHost
  \/ SingleChild
  \/ \E c \in ExitCodes : SingleChildExitEarly(c)

\* the calling thread and the child keep running
SingleSpec ==
  /\ Init
  /\ [][SingleNext]_vars
  /\ WF_vars(SingleHost)
  /\ WF_vars(SingleChild)

\* ---- properties ----
Range(q) == {q[k] : k \in 1..Len(q)}
Returned == pc = "done"
NonZeroExit(i) == status[i] \in {Exited(c) : c \in ExitCodes \ {0}}
Spawned(i) == child[i] # "unspawned"

\* C1: once output_bytes (or output) has been called with an input attached,
\* on any pipeline and whatever the edge modes and the input size, the call
\* eventually returns, when every stage reads its stdin to EOF, writes to the
\* forwarded stream and exits at EOF.
C1_Called == pc # "built" /\ api = "output_bytes" /\ feed # None
C1_OutputReturns == C1_Called ~> Returned

\* C1 witness: output_bytes returned the whole of an input longer than a
\* pipe's capacity, pushed through the longest pipeline.
C1_Witness ==
  /\ Returned /\ api = "output_bytes" /\ result = "Ok"
  /\ N = MaxStages
  /\ feed # None /\ Len(feed[1]) > PipeCap
  /\ Len(output) = Len(feed[1])

\* C2: when spawning stage i failed and the call has returned, every stage
\* spawned before it has been waited on.
C2_ReapedOnSpawnFailure ==
  (Returned /\ failedAt > 0) => \A j \in 1..(failedAt - 1) : waited[j]

\* C3: when spawning stage i failed, the call returns an error and no stage
\* after i is ever spawned.
C3_NoSpawnAfterFailure ==
  failedAt > 0 =>
    /\ Returned /\ result = "Err"
    /\ \A j \in 1..N : j > failedAt => ~Spawned(j)

\* C3 witness: the spawn of a stage that is not the last one failed.
C3_Witness == failedAt > 0 /\ failedAt < N

C5_AllWaitedOnFailure ==
  (Returned /\ failedAt = 0 /\ ~copyErr /\ \E i \in 1..N : NonZeroExit(i))
    => \A j \in 1..N : Spawned(j) => waited[j]

\* C6: on a Stdout edge the bytes that entered the next stage's stdin are
\* exactly the bytes the stage wrote to stdout, and none it wrote to stderr.
C6_StdoutEdge ==
  \A i \in 1..(N - 1) :
    (Spawned(i + 1) /\ NextPipeMode(i) = "Stdout") =>
      /\ pipeIn[fdIn[i + 1]] = outW[i]
      /\ Range(errW[i]) \cap Range(pipeIn[fdIn[i + 1]]) = {}

\* C6 witness: a stage wrote to both streams across a Stdout edge and the
\* next stage has read from its stdin.
C6_Witness ==
  /\ N = 2 /\ NextPipeMode(1) = "Stdout" /\ Spawned(2)
  /\ outW[1] # <<>> /\ errW[1] # <<>> /\ rdCnt[fdIn[2]] > 0

\* C7: on a Stderr edge the bytes that entered the next stage's stdin are
\* exactly the bytes the stage wrote to stderr, and none it wrote to stdout.
C7_StderrEdge ==
  \A i \in 1..(N - 1) :
    (Spawned(i + 1) /\ NextPipeMode(i) = "Stderr") =>
      /\ pipeIn[fdIn[i + 1]] = errW[i]
      /\ Range(outW[i]) \cap Range(pipeIn[fdIn[i + 1]]) = {}

\* C7 witness: a stage wrote to both streams across a Stderr edge and the
\* next stage has read from its stdin.
C7_Witness ==
  /\ N = 2 /\ NextPipeMode(1) = "Stderr" /\ Spawned(2)
  /\ outW[1] # <<>> /\ errW[1] # <<>> /\ rdCnt[fdIn[2]] > 0

\* C8: on a Both edge the next stage's stdin received every byte of stdout
\* and every byte of stderr exactly once, each stream in its own order.
C8_BothEdge ==
  \A i \in 1..(N - 1) :
    (Spawned(i + 1) /\ NextPipeMode(i) = "Both") =>
      /\ Len(pipeIn[fdIn[i + 1]]) = Len(outW[i]) + Len(errW[i])
      /\ SelectSeq(pipeIn[fdIn[i + 1]], LAMBDA b : b \in Range(outW[i])) = outW[i]
      /\ SelectSeq(pipeIn[fdIn[i + 1]], LAMBDA b : b \in Range(errW[i])) = errW[i]

\* C8 witness: a stage wrote to both streams across a Both edge and the next
\* stage has read both bytes.
C8_Witness ==
  /\ N = 2 /\ NextPipeMode(1) = "Both" /\ Spawned(2)
  /\ outW[1] # <<>> /\ errW[1] # <<>> /\ rdCnt[fdIn[2]] = 2

\* every stage of the pipeline behaved as an identity stage: it copied its
\* whole stdin to its stdout and exited with code 0
IdentityStages ==
  \A i \in 1..N : status[i] = Exited(0) /\ ~early[i] /\ errW[i] = <<>>
StdoutEdges == \A i \in 1..(N - 1) : NextPipeMode(i) = "Stdout"

\* C9: output_bytes on identity stages joined by Stdout edges returns Ok
\* with exactly the attached input bytes.
C9_IdentityRoundTrip ==
  (Returned /\ api = "output_bytes" /\ feed # None /\ StdoutEdges
     /\ IdentityStages)
    => (result = "Ok" /\ output = feed[1])

\* C9 witness: two identity stages returned an input longer than a pipe's
\* capacity.
C9_Witness ==
  /\ Returned /\ api = "output_bytes" /\ feed # None /\ StdoutEdges
  /\ IdentityStages /\ N = 2 /\ Len(feed[1]) > PipeCap /\ result = "Ok"

\* C10: Status::success() of the Status returned by Handle::wait is true
\* exactly when every child exited normally with code 0.
C10_SuccessIffAllZero ==
  hRet # None =>
    (hRet[1] <=> \A i \in 1..Len(hChild) : hChild[i] = Exited(0))

\* C10 witness: success() was false because only the last child, killed by a
\* signal, kept it from being true.
C10_Witness ==
  /\ hRet = Some(FALSE) /\ Len(hChild) >= 2
  /\ \A i \in 1..(Len(hChild) - 1) : hChild[i] = Exited(0)
  /\ hChild[Len(hChild)] = Signaled

\* the children that exited normally, in spawn order
NormalExits == SelectSeq(hChild, LAMBDA st : st[1] = "exit")

\* C11: Status::code() of the returned Status yields, in spawn order, the exit
\* codes of exactly the children that exited normally; a child killed by a
\* signal contributes no element.
C11_CodesOfNormalExits ==
  hRet # None =>
    /\ Len(hCodes) = Len(NormalExits)
    /\ \A k \in 1..Len(hCodes) : hCodes[k] = NormalExits[k][2]

\* C11 witness: a child killed by a signal sits between two children that
\* exited normally with different codes, and code() yielded the two codes.
C11_Witness ==
  /\ hRet # None /\ Len(hChild) = 3
  /\ hChild = <<Exited(1), Signaled, Exited(0)>>
  /\ hCodes = <<1, 0>>

\* C12: Handle::wait collects the children strictly in spawn order whatever
\* the order in which they exit, and the returned Status has one entry per
\* child, the i-th being the exit status of child i.
C12_WaitInSpawnOrder ==
  /\ Len(hStatus) = hIdx - 1
  /\ \A k \in 1..Len(hStatus) : hStatus[k] = hChild[k]
  /\ hRet # None => hStatus = hChild

\* C12 witness: the children exited in the reverse of their spawn order, with
\* different statuses, and Handle::wait returned.
C12_Witness ==
  /\ hRet # None /\ Len(hChild) = 3
  /\ hExited = <<3, 2, 1>>
  /\ hChild = <<Exited(0), Exited(1), Signaled>>

\* C13: once the input forwarding thread runs, stage 0 eventually observes
\* EOF on its stdin (or has exited): the thread's copy ends and closes the
\* stdin handle, whatever the call and the size of the input.
C13_StdinReachesEof ==
  (thread = "running") ~> (AtEof(1) \/ child[1] = "exited")

\* the forwarding thread ended on a failed write: part of the input was never
\* written
WriteFailed == thread = "done" /\ feed # None /\ sent < Len(feed[1])

\* C14: a write error in the input forwarding thread is swallowed: when the
\* call returns, its result is decided by the exit statuses collected by wait
\* and by the output drain alone.
C14_WriteErrorSwallowed ==
  (Returned /\ WriteFailed /\ failedAt = 0) =>
    (result = "Err" <=>
       (copyErr \/ \E i \in 1..N : waited[i] /\ ~ExitStatusSuccess(status[i])))

\* C14 witness: stage 0 exited with code 0 without reading its stdin, the
\* thread's write failed on the broken pipe, and the call returned Ok.
C14_Witness ==
  /\ Returned /\ WriteFailed /\ result = "Ok"
  /\ early[1] /\ status[1] = Exited(0)

\* C15: when the call has returned, with Ok or with Err, the forwarding
\* thread it started has terminated.
C15_NoThreadOutlivesCall == Returned => thread # "running"

\* C16: stage 0's stdin is connected to a pipe exactly when an input was
\* attached; without input it is inherited from the host.
C16_StdinInheritedWithoutInput ==
  Spawned(1) => (fdIn[1] # 0 <=> feed # None)

\* C17: the last stage's stdout is connected to a host-read pipe only when
\* the call captures or streams the output; under run its stdout and stderr
\* are inherited from the host.
C17_OutputPipedOnlyOnCapture ==
  Spawned(N) =>
    /\ fdOut[N] # 0 => Captures(api)
    /\ api = "run" => (fdOut[N] = 0 /\ fdErr[N] = 0)

\* the call streams the last stage's stdout into the caller's writer
Streams == api \in {"stream_to", "run_with_io"}

\* C18: when stream_to or run_with_io returns an error because a stage did
\* not exit successfully, the caller's writer has received every byte the
\* last stage wrote to its stdout, in order.
C18_SinkCompleteOnFailure ==
  (Returned /\ Streams /\ result = "Err" /\ failedAt = 0 /\ ~copyErr)
    => sink = outW[N]

\* C18 witness: a two-stage stream_to returned Err for a first stage that
\* exited non-zero after the last stage had written both input bytes.
C18_Witness ==
  /\ Returned /\ Streams /\ result = "Err" /\ failedAt = 0 /\ ~copyErr
  /\ N = 2 /\ NonZeroExit(1) /\ Len(outW[N]) = 2 /\ sink = outW[N]

\* C19: when output_bytes ran a pipeline in which a stage exited non-zero,
\* the bytes the last stage wrote to its stdout are delivered to the caller
\* together with the failure.
C19_OutputDeliveredOnFailure ==
  (Returned /\ api = "output_bytes" /\ failedAt = 0 /\ outW[N] # <<>>
     /\ \E i \in 1..N : waited[i] /\ NonZeroExit(i))
    => delivered = Some(outW[N])

AllSpawned == pc \notin {"built", "spawn"} /\ failedAt = 0

\* the stages whose stdout or stderr was wired to the stdin of a later stage
WiredStages == {i \in 1..N : fdOut[i] \in 2..N \/ fdErr[i] \in 2..N}

\* C21: a pipeline built through the builder has at least one stage, and
\* the number of edges wired by the spawn equals the number of stages
\* minus one.
C21_EdgesAreStagesMinusOne ==
  /\ N >= 1
  /\ AllSpawned =>
       /\ Cardinality(WiredStages) = N - 1
       /\ {fdIn[i] : i \in 2..N} = 2..N

\* C21 witness: the longest pipeline has been spawned.
C21_Witness == AllSpawned /\ N = MaxStages /\ WiredStages = 1..(N - 1)

\* C24: while the pipeline is being built no process, no pipe end and no
\* thread exists.
C24_BuiltHoldsNothing ==
  pc = "built" =>
    /\ \A i \in Stages : child[i] = "unspawned" /\ fdIn[i] = 0
    /\ \A p \in Pipes : wr[p] = {} /\ rdr[p] = {} /\ pipeIn[p] = <<>>
    /\ thread = "none"

\* C24 witness: a pipeline of the maximal size with the largest input
\* attached has been built and not executed.
C24_Witness ==
  pc = "built" /\ N = MaxStages /\ input = Some(Iota(MaxInput))

\* C25: once every stage is spawned, the read end of each inter-stage pipe
\* is held by the next stage only and its write end by the previous stage
\* only (by its stdout, its stderr, or both for Both); the caller holds no
\* inter-stage end.
C25_InterStageEndsOwnedOnce ==
  AllSpawned =>
    \A p \in 2..N :
      /\ rdr[p] = IF child[p] = "running" THEN {Stage(p)} ELSE {}
      /\ wr[p] = IF child[p - 1] = "running" THEN {Stage(p - 1)} ELSE {}
      /\ fdIn[p] = p
      /\ {fdOut[p - 1], fdErr[p - 1]} \ {0} = {p}
      /\ \A j \in 1..N : j # p - 1 => p \notin {fdOut[j], fdErr[j]}

\* C25 witness: both stages of a Both edge are running, the first holding
\* the write end through stdout and stderr.
C25_Witness ==
  /\ AllSpawned /\ N = 2 /\ NextPipeMode(1) = "Both"
  /\ child[1] = "running" /\ child[2] = "running"
  /\ fdOut[1] = 2 /\ fdErr[1] = 2

\* C30: the input is written to stage 0's stdin by the forwarding thread
\* only, never by the orchestrating thread, and only after every stage has
\* been spawned.
C30_InputWrittenByThreadOnly ==
  /\ Len(pipeIn[1]) = sent
  /\ sent > 0 => thread # "none"
  /\ pc \in {"built", "spawn", "input"} => sent = 0

\* C30 witness: every stage is spawned and the caller drains output while
\* the thread has not written the whole input yet.
C30_Witness ==
  /\ pc = "drain" /\ thread = "running" /\ N = MaxStages
  /\ sent < Len(feed[1]) /\ (output # <<>> \/ sink # <<>>)

\* C22: building never fails and never validates: a command with an empty
\* or missing program name goes through every builder operation without an
\* error, and the error appears only when the command is spawned, as a spawn
\* failure naming the program.
C22_BuildNeverValidates ==
  /\ spawned = "none" => spawnErr = None
  /\ (spawned # "none" /\ ~Executable(program)) =>
       (spawned = "failed" /\ spawnErr = Some(program))
  /\ spawnErr # None => ~Executable(program)

\* C22 witness: a command with an empty program name took the maximal
\* number of env calls and failed only at the spawn.
C22_Witness ==
  /\ program = "empty" /\ Len(envs) = MaxEnvs
  /\ spawned = "failed" /\ spawnErr = Some("empty")

\* the index of the last env call for key k
LastEnv(k) ==
  CHOOSE j \in 1..Len(envs) :
    envs[j][1] = k /\ \A h \in (j + 1)..Len(envs) : envs[h][1] # k

\* C23: the spawned process sees, for every key, the value of the last env
\* call for that key, and the inherited value for a key without env call.
C23_EnvLastWriteWins ==
  procEnv # None =>
    \A k \in EnvKeys :
      procEnv[1][k] =
        IF \E j \in 1..Len(envs) : envs[j][1] = k
          THEN Some(envs[LastEnv(k)][2])
          ELSE Inherited[k]

\* C23 witness: K1 was set to 1 and later to 2 with a K2 override between
\* them; the process sees K1 = 2, K2 = 1 and the inherited HOME.
C23_Witness ==
  /\ envs = <<<<"K1", 1>>, <<"K2", 1>>, <<"K1", 2>>>>
  /\ procEnv # None
  /\ procEnv[1]["K1"] = Some(2) /\ procEnv[1]["K2"] = Some(1)
  /\ procEnv[1]["HOME"] = Some(0)

\* C27: a PipelineHandle made by a spawn_with_* call returns from
\* output_bytes / output the bytes the last stage wrote to its stdout.
C27_HandleOutputIsLastStdout ==
  sCall = "output_bytes" =>
    /\ sRet # None
    /\ sRet[1] = "Ok"
    /\ sRet[2] = sWritten

TAllExited == \A i \in 1..Len(tChild) : tChild[i] # NotExited

KOwnOutput ==
  \A c \in Calls :
    /\ \A k \in 1..Len(kOut[c]) : kOut[c][k][1] = c
    /\ kPc[c] = "done" => kOut[c] = KInput(c)

\* C26: pipelines executed concurrently from different host threads do not
\* interfere: every call terminates, and its captured output consists only
\* of the bytes produced by its own last stage.
C26_ConcurrentCallsIndependent ==
  /\ []KOwnOutput
  /\ \A c \in Calls : (kPc[c] # "idle") ~> (kPc[c] = "done")

\* both calls are in flight: one is draining its output while the other is
\* still spawning its stages
C26_Witness ==
  /\ kPc[1] = "drain"
  /\ kOut[1] # <<>>
  /\ kPc[2] = "spawn"
  /\ kNext[2] = MaxStages

\* the bytes of the last input call recorded
LastInput == inputCalls[Len(inputCalls)]

C32_HostHoldsNothingWhileBlocked ==
  (pc \in {"join", "wait"} /\ api \in {"run", "output_bytes"}) =>
    /\ Host \notin wr[1]
    /\ Host \in rdr[StdoutPipe] => AtEof(StdoutPipe)
    /\ Host \in rdr[StderrPipe] => AtEof(StderrPipe)

\* the final reader has been read from, or its drain is over
DrainBegun == output # <<>> \/ sink # <<>> \/ rdCnt[StdoutPipe] > 0
SomeWaited == \E i \in 1..N : waited[i]

\* C33: the final reader is drained only after all N stages have been
\* spawned and, to EOF, before any child is waited on; the children are then
\* waited on in spawn order.
C33_DrainBetweenSpawnAndWait ==
  /\ DrainBegun => \A i \in 1..N : Spawned(i)
  /\ (SomeWaited /\ Captures(api)) => AtEof(StdoutPipe)
  /\ pc = "drain" => ~SomeWaited
  /\ \A i \in 1..N : waited[i] => \A j \in 1..(i - 1) : waited[j]

\* C33 witness: output was drained from a two-stage pipeline and both
\* children were then waited on
C33_Witness ==
  /\ N = MaxStages /\ Captures(api) /\ rdCnt[StdoutPipe] > 0
  /\ \A i \in 1..N : waited[i]

\* C34: stages are spawned strictly in index order, and for every i > 0 the
\* stdin of stage i is the read end of the pipe created while setting up
\* stage i - 1, never inherited and never a pipe made for another stage.
C34_SpawnedLeftToRight ==
  \A i \in 1..N : Spawned(i) =>
    /\ \A j \in 1..(i - 1) : Spawned(j)
    /\ i > 1 =>
         /\ fdIn[i] # 0
         /\ fdIn[i] \in {fdOut[i - 1], fdErr[i - 1]}
         /\ \A j \in 1..N : (j \notin {i - 1, i} /\ Spawned(j)) =>
              fdIn[i] \notin {fdOut[j], fdErr[j], fdIn[j]}
         /\ fdIn[i] \notin {fdOut[i], fdErr[i], fdIn[i - 1]}

\* C34 witness: the last of MaxStages stages is running on the pipe of its
\* predecessor
C34_Witness ==
  /\ N = MaxStages /\ child[N] = "running" /\ fdIn[N] = N
  /\ fdOut[N - 1] = N

\* C35: if spawning stage i fails, then when the call returns its error the
\* host holds no end of any pipe created for the pipeline, so the running
\* stages see EOF on stdin or a broken pipe.
C35_NoEndsHeldAfterSpawnFailure ==
  failedAt > 0 =>
    /\ pc = "done" /\ result = "Err"
    /\ \A p \in Pipes : Host \notin wr[p] /\ Host \notin rdr[p]
    /\ Spawned(1) => wr[1] = {}
    /\ \A i \in 1..N : child[i] = "running" =>
         \A p \in WritePipes(i) : p >= failedAt => Broken(p)

\* C35 witness: the second stage failed to spawn while the first is running
C35_Witness ==
  /\ failedAt = 2 /\ child[1] = "running" /\ AtEof(1) /\ Broken(2)

\* the stage whose exit code the error of PipelineHandle::wait names
ReportedStage == next
WaitErred == pc = "done" /\ result = "Err" /\ failedAt = 0 /\ ~copyErr

\* C36: when several stages exit non-zero, the error returned by
\* PipelineHandle::wait reports the earliest-spawned failing stage,
\* whatever the order in which the stages exited.
C36_EarliestFailureReported ==
  WaitErred =>
    /\ ~ExitStatusSuccess(status[ReportedStage])
    /\ \A j \in 1..(ReportedStage - 1) : ExitStatusSuccess(status[j])

\* C36 witness: both stages failed, the first is reported although the
\* second was not even collected
C36_Witness ==
  /\ WaitErred /\ N = 2 /\ ReportedStage = 1
  /\ NonZeroExit(1) /\ NonZeroExit(2) /\ early[2]

\* C37: each execution of a pipeline echoes it at most once, before the
\* first stage is spawned, and not at all when echo is suppressed.
C37_EchoedOnceBeforeSpawn ==
  /\ Len(qEchoAt) <= 1
  /\ \A k \in 1..Len(qEchoAt) : qEchoAt[k] = 0
  /\ (qApi # "none" /\ qAsked) => qEchoAt = <<>>

\* C37 witness: output_bytes on MaxStages stages printed its echo line and
\* then spawned every stage
C37_Witness ==
  /\ qApi = "output_bytes" /\ qPc = "spawned" /\ qStages = MaxStages
  /\ qEchoAt = <<0>>

\* the arguments of the puts, one space between two of them
RECURSIVE Spaced(_, _)
Spaced(args, k) ==
  IF k > Len(args) THEN <<>>
  ELSE (IF k = 1 THEN <<args[k]>> ELSE <<" ", args[k]>>) \o Spaced(args, k + 1)

\* C38: Echo is a three-state machine: Quiet is absorbing and never prints,
\* Head moves to Tail on the first put, Tail stays Tail; so the first
\* argument is printed with no leading space and every later argument is
\* preceded by exactly one space.
C38_EchoStates ==
  echoState \in {"Quiet", "Head", "Tail"} =>
    /\ echoFirst = "Quiet" => (echoState = "Quiet" /\ echoOut = <<>>)
    /\ echoFirst = "Head" =>
         /\ echoState = (IF echoArgs = <<>> THEN "Head" ELSE "Tail")
         /\ echoOut = Spaced(echoArgs, 1)

\* C38 witness: three arguments were put on an Echo that started as Head
C38_Witness ==
  /\ echoFirst = "Head" /\ echoState = "Tail" /\ Len(echoArgs) = 3
  /\ echoOut = <<echoArgs[1], " ", echoArgs[2], " ", echoArgs[3]>>

\* C31: in the single-command path Cmd::output with an attached input
\* returns for every input size: writing the input and collecting the output
\* cannot block each other.
C31_SingleOutputReturns == (xPc = "write") ~> (xPc = "done")

====
